---- MODULE Spec2Model ----
(***************************************************************************)
(* Model of Zigbee2MqttDevice (src/src/zigbee2mqtt/zigbee2mqtt-device.ts): *)
(* the constructor with detectProperties, the update dispatcher,           *)
(* performAction with the publish acknowledgement, and fetchValues.        *)
(*                                                                         *)
(* JavaScript values are records [t, n, s]: t is the typeof-like tag, n    *)
(* the number, s the text of a string.  A text is a sequence of tokens;    *)
(* the words the code searches for ("single", "double", "release", "on",   *)
(* "toggle") are tokens of their own, so that indexOf(word) > -1 is a      *)
(* search and `=== word` is an equality, and the two differ.               *)
(***************************************************************************)
EXTENDS Integers, Sequences, FiniteSets, TLC

VARIABLES phase, def, types, properties, actions, events, routes, calls,
          subscribed, title, lastUpdate, invocations, lastFetch,
          fetchPending, warned, escaped

vars == <<phase, def, types, properties, actions, events, routes, calls,
          subscribed, title, lastUpdate, invocations, lastFetch,
          fetchPending, warned, escaped>>

(***************************** bounds **************************************)
MaxExposes == 2
MaxKeys == 2
MaxInvocations == 2
MaxFetchPending == 2

(*************************** JavaScript values *****************************)
Undefined == [t |-> "undefined", n |-> 0, s |-> <<>>]
Null == [t |-> "null", n |-> 0, s |-> <<>>]
Num(k) == [t |-> "number", n |-> k, s |-> <<>>]
Bool(b) == [t |-> "boolean", n |-> IF b THEN 1 ELSE 0, s |-> <<>>]
Str(text) == [t |-> "string", n |-> 0, s |-> text]

\* String.prototype.indexOf on token texts: the index of the first
\* occurrence of word, or -1.
IndexOf(text, word) ==
  IF \E i \in 1..Len(text) : text[i] = word
  THEN (CHOOSE i \in 1..Len(text) :
          text[i] = word /\ \A j \in 1..(i - 1) : text[j] # word) - 1
  ELSE 0 - 1

Range(seq) == {seq[i] : i \in 1..Len(seq)}
Count(seq, x) == Cardinality({i \in 1..Len(seq) : seq[i] = x})
Put(f, k, v) == [x \in (DOMAIN f) \cup {k} |-> IF x = k THEN v ELSE f[x]]

(*************************** program constants *****************************)
WRITE_BIT == 2
READ_BIT == 1

IGNORED_PROPERTIES ==
  {"linkquality", "local_temperature_calibration", "update", "update_available",
   "color_temp_startup", "voltage", "led_indication", "occupancy_timeout",
   "illuminance", "motion_sensitivity", "requested_brightness_percent",
   "requested_brightness_level", "action_side", "eurotronic_trv_mode",
   "eurotronic_valve_position"}

TopicPrefix == "zigbee2mqtt"

(*************************** device definitions ****************************)
\* An Expos node.  name "" and type "" stand for an absent field (both are
\* falsy, resp. replaced by '' at line 81); access is a JavaScript value,
\* Undefined when absent; features and values carry their presence.
Feature(name, access) ==
  [type |-> "", name |-> name, access |-> access,
   features |-> [present |-> FALSE, items |-> <<>>],
   values |-> [kind |-> "undefined", items |-> <<>>]]

Composite(type, present, items) ==
  [type |-> type, name |-> "", access |-> Undefined,
   features |-> [present |-> present, items |-> items],
   values |-> [kind |-> "undefined", items |-> <<>>]]

ActionNode(kind, items) ==
  [type |-> "enum", name |-> "action", access |-> Num(1),
   features |-> [present |-> FALSE, items |-> <<>>],
   values |-> [kind |-> kind, items |-> items]]

Leaf(type, name, access) ==
  [type |-> type, name |-> name, access |-> access,
   features |-> [present |-> FALSE, items |-> <<>>],
   values |-> [kind |-> "undefined", items |-> <<>>]]

FeatureLists ==
  { <<>>,
    <<Feature("state", Num(3))>>,
    <<Feature("state", Num(3)), Feature("brightness", Num(2))>>,
    <<Feature("", Num(1)), Feature("color_xy", Num(3))>>,
    <<Feature("system_mode", Num(3)), Feature("running_state", Num(1))>>,
    <<Feature("action", Num(1)), Feature("linkquality", Num(1))>>,
    <<Feature("local_temperature", Num(1)), Feature("contact", Undefined)>> }

CompositeNodes ==
  {Composite(ty, FALSE, <<>>) : ty \in {"light", "switch", "climate"}}
    \cup {Composite(ty, TRUE, fs) : ty \in {"light", "switch", "climate"},
                                    fs \in FeatureLists}

ValueLists ==
  { <<>>,
    <<Str(<<"single", "_left">>)>>,
    <<Str(<<"double">>), Str(<<"hold">>)>>,
    <<Str(<<"hold">>)>>,
    <<Str(<<"single">>), Str(<<"double", "_", "release">>)>>,
    <<Str(<<"on", "_left">>)>>,
    <<Str(<<"on">>), Str(<<"toggle">>)>>,
    <<Str(<<"single">>), Num(5)>>,
    <<Null>> }

ActionNodes ==
  {ActionNode("undefined", <<>>), ActionNode("string", <<>>)}
    \cup {ActionNode("array", vs) : vs \in ValueLists}

AccessValues == {Undefined, Num(0), Num(1), Num(2), Num(3)}

GenericNodes ==
  {Leaf("numeric", n, a) : n \in {"", "temperature"}, a \in AccessValues}
    \cup { Leaf("", "linkquality", Num(1)), Leaf("", "linkquality", Num(2)),
           Leaf("binary", "contact", Num(1)), Leaf("", "0", Num(3)) }

Nodes == CompositeNodes \cup ActionNodes \cup GenericNodes

RECURSIVE SeqsUpTo(_, _)
SeqsUpTo(S, n) ==
  IF n = 0 THEN {<<>>}
  ELSE LET shorter == SeqsUpTo(S, n - 1)
       IN shorter \cup {Append(q, x) : q \in shorter, x \in S}

\* A DeviceDefinition: `definition` and `definition.exposes` may be missing.
Definition(hasDefinition, hasExposes, exposes) ==
  [friendly_name |-> "lamp1", hasDefinition |-> hasDefinition,
   hasExposes |-> hasExposes, exposes |-> exposes]

NoDefinition == Definition(FALSE, FALSE, <<>>)

Definitions ==
  {NoDefinition, Definition(TRUE, FALSE, <<>>)}
    \cup {Definition(TRUE, TRUE, es) : es \in SeqsUpTo(Nodes, MaxExposes)}

(***************************** detectProperties ****************************)
\* The device under construction: the host registries, the '@type' list,
\* and two traces: the branch taken for each top-level node (routes) and
\* the registry calls made (calls).
EmptyDevice ==
  [types |-> <<>>, properties |-> <<>>, actions |-> {}, events |-> <<>>,
   routes |-> <<>>, calls |-> <<>>, thrown |-> FALSE]

Call(node, op, name, value) ==
  [node |-> node, op |-> op, name |-> name, value |-> value]

PushType(dev, node, tag) ==
  [dev EXCEPT !.types = Append(@, tag),
              !.calls = Append(@, Call(node, "pushType", tag, <<>>))]

\* new <kind>Property(this, name, expose, ...) followed by addProperty:
\* the registry is keyed by the property's name, a later one replaces it.
AddProperty(dev, node, kind, name, expose) ==
  [dev EXCEPT
     !.properties = Put(@, name, [kind |-> kind, access |-> expose.access,
                                  value |-> Undefined]),
     !.calls = Append(@, Call(node, "addProperty", name, <<>>))]

AddAction(dev, node, name) ==
  [dev EXCEPT !.actions = @ \cup {name},
              !.calls = Append(@, Call(node, "addAction", name, <<>>))]

AddEvent(dev, node, value, tag) ==
  [dev EXCEPT !.events = Put(@, value, tag),
              !.calls = Append(@, Call(node, "addEvent", "", value))]

CreateProperty(dev, node, expose) ==
  IF expose.name # ""
  THEN IF expose.name \in IGNORED_PROPERTIES
       THEN dev
       ELSE IF expose.name = "contact"
            THEN AddProperty(dev, node, "Contact", expose.name, expose)
            ELSE AddProperty(dev, node, "Generic", expose.name, expose)
  ELSE dev

CreateAction(dev, node, expose) ==
  IF expose.name # "" THEN AddAction(dev, node, expose.name) ELSE dev

LightFeature(dev, node, feature) ==
  IF feature.name # ""
  THEN CASE feature.name = "state" ->
              AddProperty(dev, node, "OnOff", feature.name, feature)
         [] feature.name = "brightness" ->
              AddProperty(dev, node, "Brightness", feature.name, feature)
         [] feature.name = "color_temp" ->
              AddProperty(dev, node, "ColorTemperature", feature.name, feature)
         [] feature.name = "color_xy" ->
              AddProperty(dev, node, "Color", "color", feature)
         [] OTHER -> dev
  ELSE dev

SmartPlugFeature(dev, node, feature) ==
  IF feature.name # ""
  THEN IF feature.name = "state"
       THEN AddProperty(dev, node, "OnOff", feature.name, feature)
       ELSE dev
  ELSE dev

ThermostatFeature(dev, node, feature) ==
  IF feature.name # ""
  THEN CASE feature.name = "system_mode" ->
              AddProperty(dev, node, "ThermostatMode", feature.name, feature)
         [] feature.name = "running_state" ->
              AddProperty(dev, node, "HeatingCooling", feature.name, feature)
         [] OTHER -> CreateProperty(dev, node, feature)
  ELSE dev

RECURSIVE LightLoop(_, _, _, _)
LightLoop(dev, node, features, i) ==
  IF i > Len(features) THEN dev
  ELSE LightLoop(LightFeature(dev, node, features[i]), node, features, i + 1)

RECURSIVE SmartPlugLoop(_, _, _, _)
SmartPlugLoop(dev, node, features, i) ==
  IF i > Len(features) THEN dev
  ELSE SmartPlugLoop(SmartPlugFeature(dev, node, features[i]), node, features, i + 1)

RECURSIVE ThermostatLoop(_, _, _, _)
ThermostatLoop(dev, node, features, i) ==
  IF i > Len(features) THEN dev
  ELSE ThermostatLoop(ThermostatFeature(dev, node, features[i]), node, features, i + 1)

CreateLightProperties(dev, node, expose) ==
  IF expose.features.present
  THEN LightLoop(PushType(dev, node, "Light"), node, expose.features.items, 1)
  ELSE dev

CreateSmartPlugProperties(dev, node, expose) ==
  IF expose.features.present
  THEN SmartPlugLoop(PushType(dev, node, "SmartPlug"), node, expose.features.items, 1)
  ELSE dev

CreateThermostatProperties(dev, node, expose) ==
  IF expose.features.present
  THEN ThermostatLoop(PushType(dev, node, "Thermostat"), node, expose.features.items, 1)
  ELSE dev

\* The '@type' of one event value: three independent tests, the last
\* matching one wins; "" when none matches.
EventTag(text) ==
  LET pressed == IF IndexOf(text, "single") > 0 - 1 \/ text = <<"on">>
                    \/ text = <<"toggle">>
                 THEN "PressedEvent" ELSE ""
      double == IF IndexOf(text, "double") > 0 - 1
                THEN "DoublePressedEvent" ELSE pressed
  IN IF IndexOf(text, "release") > 0 - 1 THEN "LongPressedEvent" ELSE double

\* The loop of createEvents.  value.indexOf is a method of strings only: on
\* a number, a boolean or null the first test raises a TypeError, which
\* leaves createEvents, detectProperties and the constructor.
RECURSIVE EventLoop(_, _, _, _, _)
EventLoop(dev, node, values, i, isPushbutton) ==
  IF i > Len(values) THEN [dev |-> dev, isPushbutton |-> isPushbutton]
  ELSE IF values[i].t # "string"
       THEN [dev |-> [dev EXCEPT !.thrown = TRUE], isPushbutton |-> isPushbutton]
       ELSE LET tag == EventTag(values[i].s)
            IN EventLoop(AddEvent(dev, node, values[i].s, tag), node, values,
                         i + 1, isPushbutton \/ tag # "")

CreateEvents(dev, node, values) ==
  IF values.kind = "array"
  THEN IF Len(values.items) > 0
       THEN LET r == EventLoop(dev, node, values.items, 1, FALSE)
            IN IF r.dev.thrown THEN r.dev
               ELSE IF r.isPushbutton
                    THEN PushType(r.dev, node, "PushButton")
                    ELSE r.dev
       ELSE dev
  ELSE dev

\* expose.access ?? 0
AccessOf(expose) == IF expose.access = Undefined THEN 0 ELSE expose.access.n

IsWriteOnlyBitTest(expose) == (AccessOf(expose) \div WRITE_BIT) % 2 = 1

IsWriteOnly(expose) == AccessOf(expose) = WRITE_BIT

Routed(dev, route) == [dev EXCEPT !.routes = Append(@, route)]

\* One iteration of the loop of detectProperties.
DetectNode(dev, node, expose) ==
  CASE expose.type = "light" ->
         CreateLightProperties(Routed(dev, "light"), node, expose)
    [] expose.type = "switch" ->
         CreateSmartPlugProperties(Routed(dev, "switch"), node, expose)
    [] expose.type = "climate" ->
         CreateThermostatProperties(Routed(dev, "climate"), node, expose)
    [] OTHER ->
         IF expose.name = "action"
         THEN CreateEvents(Routed(dev, "events"), node, expose.values)
         ELSE IF IsWriteOnly(expose)
              THEN CreateAction(Routed(dev, "action"), node, expose)
              ELSE CreateProperty(Routed(dev, "property"), node, expose)

RECURSIVE DetectLoop(_, _, _)
DetectLoop(dev, exposes, i) ==
  IF i > Len(exposes) \/ dev.thrown THEN dev
  ELSE DetectLoop(DetectNode(dev, i, exposes[i]), exposes, i + 1)

ExposesOf(deviceDefinition) ==
  IF deviceDefinition.hasDefinition /\ deviceDefinition.hasExposes
  THEN deviceDefinition.exposes
  ELSE <<>>

DetectProperties(deviceDefinition) ==
  DetectLoop(EmptyDevice, ExposesOf(deviceDefinition), 1)

DeviceTopic(deviceDefinition) == <<TopicPrefix, deviceDefinition.friendly_name>>

(********************************* update **********************************)
\* The arguments of update.  An object is its entries in Object.entries
\* order; Object.entries of a string is its index/character pairs, of a
\* number or a boolean nothing, and of null or undefined a TypeError.
Entry(k, v) == [k |-> k, v |-> v]
ObjectInput(entries) == [t |-> "object", entries |-> entries]
NullInput == [t |-> "null", entries |-> <<>>]
UndefinedInput == [t |-> "undefined", entries |-> <<>>]
NumberInput == [t |-> "number", entries |-> <<>>]
BooleanInput == [t |-> "boolean", entries |-> <<>>]
StringInput(chars) ==
  [t |-> "string",
   entries |-> [i \in 1..Len(chars) |->
                  Entry(<<"0", "1", "2", "3">>[i], Str(<<chars[i]>>))]]

\* typeof: null is an 'object'.
TypeOf(update) == IF update.t = "null" THEN "object" ELSE update.t

ObjectEntriesThrows(update) == update.t \in {"null", "undefined"}

FindPropertyOrAny(props, key) ==
  IF key \in DOMAIN props THEN [found |-> TRUE, name |-> key]
  ELSE IF DOMAIN props # {}
       THEN [found |-> TRUE, name |-> CHOOSE n \in DOMAIN props : TRUE]
       ELSE [found |-> FALSE, name |-> ""]

\* Device.findProperty: by exact name.
FindProperty(props, key) ==
  IF key \in DOMAIN props THEN [found |-> TRUE, name |-> key]
  ELSE [found |-> FALSE, name |-> ""]

EventExistsAlways(evts, text) == TRUE

\* this.events.has(value)
EventExists(evts, text) == text \in DOMAIN evts

UpdateArgumentsDelta(property, value, update) ==
  [value |-> IF property.value.t = "number" /\ value.t = "number"
             THEN Num(property.value.n + value.n) ELSE value,
   update |-> update]

\* The arguments of property.update(value, update) at line 406.
UpdateArguments(property, value, update) == [value |-> value, update |-> update]

\* Zigbee2MqttProperty.update and its subclasses: the cached value becomes
\* the received one, the contact property inverting a boolean.
PropertyUpdate(property, args) ==
  [property EXCEPT !.value =
     IF property.kind = "Contact" /\ args.value.t = "boolean"
     THEN Bool(args.value.n = 0)
     ELSE args.value]

\* One iteration of the loop of update.
DispatchEntry(acc, evts, entry, update) ==
  IF entry.k \in IGNORED_PROPERTIES THEN acc
  ELSE IF entry.k = "action"
       THEN IF entry.v.t # "string" THEN acc
            ELSE IF ~EventExists(evts, entry.v.s) THEN acc
                 ELSE [acc EXCEPT !.notified = Append(@, entry.v.s)]
       ELSE LET property == FindProperty(acc.properties, entry.k)
            IN IF property.found
               THEN LET args == UpdateArguments(acc.properties[property.name],
                                                entry.v, update)
                    IN [acc EXCEPT
                          !.properties[property.name] = PropertyUpdate(@, args),
                          !.delivered = @ \cup {[key |-> entry.k,
                                                 property |-> property.name,
                                                 value |-> args.value,
                                                 update |-> args.update]}]
               ELSE acc

RECURSIVE DispatchLoop(_, _, _, _)
DispatchLoop(acc, evts, update, i) ==
  IF i > Len(update.entries) THEN acc
  ELSE DispatchLoop(DispatchEntry(acc, evts, update.entries[i], update),
                    evts, update, i + 1)

\* update(update): the type check only logs; Object.entries then throws on
\* null and undefined.
Dispatch(props, evts, update) ==
  LET start == [properties |-> props, delivered |-> {}, notified |-> <<>>,
                threw |-> FALSE]
  IN IF ObjectEntriesThrows(update)
     THEN [start EXCEPT !.threw = TRUE]
     ELSE DispatchLoop(start, evts, update, 1)

UpdateEntries ==
  { Entry("action", Str(<<"single", "_left">>)),
    Entry("action", Str(<<"unknown">>)),
    Entry("action", Num(1)),
    Entry("temperature", Num(0)),
    Entry("temperature", Num(1)),
    Entry("state", Num(1)),
    Entry("contact", Bool(TRUE)),
    Entry("bogus", Num(1)),
    Entry("linkquality", Num(1)) }

DistinctKeys(entries) ==
  \A i, j \in 1..Len(entries) : entries[i].k = entries[j].k => i = j

UpdateInputs ==
  {ObjectInput(es) : es \in {q \in SeqsUpTo(UpdateEntries, MaxKeys) : DistinctKeys(q)}}
    \cup {NullInput, UndefinedInput, NumberInput, BooleanInput,
          StringInput(<<>>), StringInput(<<"a", "b">>)}

\* The devices the dispatcher is exercised on.
UpdateDefinitions ==
  { Definition(TRUE, TRUE, <<>>),
    Definition(TRUE, TRUE,
      <<Leaf("numeric", "temperature", Num(1)),
        ActionNode("array", <<Str(<<"single", "_left">>)>>)>>),
    Definition(TRUE, TRUE,
      <<Composite("climate", TRUE,
          <<Feature("action", Num(1)), Feature("linkquality", Num(1))>>),
        ActionNode("array", <<Str(<<"single", "_left">>)>>)>>),
    Definition(TRUE, TRUE,
      <<Composite("light", TRUE,
          <<Feature("state", Num(3)), Feature("brightness", Num(2))>>),
        Leaf("numeric", "temperature", Num(3))>>),
    Definition(TRUE, TRUE,
      <<Leaf("", "0", Num(3)), Leaf("binary", "contact", Num(1))>>) }

(***************************** performAction *******************************)
\* Errors: the class, an identity, and the identity of the wrapped cause.
NoError == [class |-> "none", id |-> "", cause |-> ""]
TransportErrors ==
  { [class |-> "Error", id |-> "ECONNRESET", cause |-> ""],
    [class |-> "Error", id |-> "client disconnecting", cause |-> ""] }
PublishThrown == [class |-> "Error", id |-> "publish threw", cause |-> ""]

\* What client.publish (or JSON.stringify before it) does inside the promise
\* executor: it returns, the callback being owed, or it throws.
PublishOutcomes == {"returns", "throws"}

ActionNames == {"brightness", "temperature"}
ActionInputs == {Num(50), Str(<<"ON">>)}

\* resolve/reject: only the first call settles the promise.
Settle(inv, how, reason) ==
  [inv EXCEPT !.trace = Append(@, how),
              !.promise = IF @ = "pending"
                          THEN (IF how = "resolve" THEN "resolved" ELSE "rejected")
                          ELSE @,
              !.reason = IF inv.promise = "pending" /\ how = "reject"
                         THEN reason ELSE @]

\* performAction up to the return of the promise.  An exception inside the
\* executor rejects the promise; nothing catches it to call action.finish().
NewInvocation(topic, name, input, outcome) ==
  LET started == [name |-> name, input |-> input, trace |-> <<"start">>,
                  promise |-> "pending", reason |-> NoError,
                  publish |-> [topic |-> <<>>, key |-> "", value |-> Undefined],
                  awaiting |-> FALSE,
                  ack |-> [received |-> FALSE, error |-> NoError]]
      issued == [started EXCEPT
                   !.trace = Append(@, "publish"),
                   !.publish = [topic |-> topic \o <<"set">>, key |-> name,
                                value |-> input]]
  IN IF outcome = "throws"
     THEN Settle(issued, "reject", PublishThrown)
     ELSE [issued EXCEPT !.awaiting = TRUE]

AckCallbackIgnoringError(inv, error) ==
  Settle([inv EXCEPT !.trace = Append(@, "finish"),
                     !.awaiting = FALSE,
                     !.ack = [received |-> TRUE, error |-> error]],
         "resolve", NoError)

\* The callback given to client.publish at lines 427-435.
AckCallback(inv, error) ==
  LET finished == [inv EXCEPT !.trace = Append(@, "finish"),
                              !.awaiting = FALSE,
                              !.ack = [received |-> TRUE, error |-> error]]
  IN IF error # NoError
     THEN Settle(finished, "reject", error)
     ELSE Settle(finished, "resolve", NoError)

\* The devices actions are invoked on.
ActionDefinitions ==
  { Definition(TRUE, TRUE, <<Leaf("numeric", "temperature", Num(2))>>),
    Definition(TRUE, TRUE,
      <<Composite("light", TRUE,
          <<Feature("state", Num(3)), Feature("brightness", Num(2))>>)>>) }

(******************************* fetchValues ********************************)
\* Zigbee2MqttProperty.isReadable: the READ bit of the expose's access.
IsReadable(property) == (AccessOf(property) \div READ_BIT) % 2 = 1

FetchPayloadOfAll(props) == [n \in DOMAIN props |-> ""]

\* The payload built at lines 444-450; a property's getName() is the key it
\* was registered under.
FetchPayload(props) == [n \in {p \in DOMAIN props : IsReadable(props[p])} |-> ""]

\* The publishes fetchValues issues.
FetchPublishes(topic, props) ==
  LET payload == FetchPayload(props)
  IN IF Cardinality(DOMAIN payload) > 0
     THEN <<[topic |-> topic \o <<"get">>, payload |-> payload]>>
     ELSE <<>>

\* The callback of the read publish at lines 460-464: console.warn when an
\* error is given, and nothing is thrown or handed on.
FetchAckCallback(error) == [warned |-> error # NoError, thrown |-> FALSE]

FetchNodes ==
  { Composite("light", TRUE,
      <<Feature("state", Num(3)), Feature("brightness", Num(2))>>),
    Composite("climate", TRUE,
      <<Feature("local_temperature", Num(1)), Feature("contact", Undefined)>>),
    Composite("switch", FALSE, <<>>),
    ActionNode("array", <<Str(<<"double">>), Str(<<"hold">>)>>),
    Leaf("numeric", "temperature", Num(1)),
    Leaf("numeric", "temperature", Num(2)),
    Leaf("numeric", "temperature", Undefined),
    Leaf("numeric", "humidity", Num(3)),
    Leaf("numeric", "humidity", Num(0)),
    Leaf("", "linkquality", Num(1)) }

FetchDefinitions ==
  {NoDefinition}
    \cup {Definition(TRUE, TRUE, es) : es \in SeqsUpTo(FetchNodes, MaxExposes)}

(******************************* state *************************************)
\* The record of the most recent call of update: its argument, whether the
\* type check logged, whether it threw, the calls of property.update it
\* made, the events it notified, the properties before the call, and
\* whether the call before it had the same argument and returned.
NoUpdate ==
  [called |-> FALSE, input |-> [t |-> "undefined", entries |-> <<>>],
   logged |-> FALSE, threw |-> FALSE, delivered |-> {}, notified |-> <<>>,
   before |-> <<>>, repeated |-> FALSE]
NoFetch == [called |-> FALSE, published |-> <<>>]

Init ==
  /\ phase = "new"
  /\ def = NoDefinition
  /\ types = <<>>
  /\ properties = <<>>
  /\ actions = {}
  /\ events = <<>>
  /\ routes = <<>>
  /\ calls = <<>>
  /\ subscribed = {}
  /\ title = ""
  /\ lastUpdate = NoUpdate
  /\ invocations = <<>>
  /\ lastFetch = NoFetch
  /\ fetchPending = 0
  /\ warned = FALSE
  /\ escaped = FALSE

\* new Zigbee2MqttDevice(adapter, id, deviceDefinition, client, topicPrefix).
\* When detectProperties throws, the constructor ends there: no subscribe,
\* no title, and no device is handed to the caller (phase "failed").
ConstructFrom(D) ==
  /\ phase = "new"
  /\ \E d \in D :
       LET dev == DetectProperties(d)
       IN /\ def' = d
          /\ types' = dev.types
          /\ properties' = dev.properties
          /\ actions' = dev.actions
          /\ events' = dev.events
          /\ routes' = dev.routes
          /\ calls' = dev.calls
          /\ IF dev.thrown
             THEN /\ phase' = "failed"
                  /\ subscribed' = {}
                  /\ title' = ""
             ELSE /\ phase' = "ready"
                  /\ subscribed' = {DeviceTopic(d)}
                  /\ title' = IF d.friendly_name # "" THEN d.friendly_name
                              ELSE "Zigbee2MQTT (id)"
  /\ UNCHANGED <<lastUpdate, invocations, lastFetch, fetchPending, warned, escaped>>

Construct == ConstructFrom(Definitions)

ConstructForUpdate == ConstructFrom(UpdateDefinitions)

Update(update) ==
  /\ phase = "ready"
  /\ LET r == Dispatch(properties, events, update)
     IN /\ properties' = r.properties
        /\ lastUpdate' =
             [called |-> TRUE, input |-> update,
              logged |-> TypeOf(update) # "object", threw |-> r.threw,
              delivered |-> r.delivered, notified |-> r.notified,
              before |-> properties,
              repeated |-> /\ lastUpdate.called
                           /\ lastUpdate.input = update
                           /\ ~lastUpdate.threw]
  /\ UNCHANGED <<phase, def, types, actions, events, routes, calls, subscribed,
                 title, invocations, lastFetch, fetchPending, warned, escaped>>

NextUpdate ==
  \/ ConstructForUpdate
  \/ \E update \in UpdateInputs : Update(update)

SpecUpdate == Init /\ [][NextUpdate]_vars

ConstructForAction == ConstructFrom(ActionDefinitions)

PerformAction(name, input, outcome) ==
  /\ phase = "ready"
  /\ Len(invocations) < MaxInvocations
  /\ invocations' = Append(invocations,
                           NewInvocation(DeviceTopic(def), name, input, outcome))
  /\ UNCHANGED <<phase, def, types, properties, actions, events, routes, calls,
                 subscribed, title, lastUpdate, lastFetch, fetchPending, warned, escaped>>

\* The transport acknowledges the publish of invocation i, once.
PublishAck(i, error) ==
  /\ i \in 1..Len(invocations)
  /\ invocations[i].awaiting
  /\ invocations' = [invocations EXCEPT ![i] = AckCallback(@, error)]
  /\ UNCHANGED <<phase, def, types, properties, actions, events, routes, calls,
                 subscribed, title, lastUpdate, lastFetch, fetchPending, warned, escaped>>

NextAction ==
  \/ ConstructForAction
  \/ \E name \in ActionNames, input \in ActionInputs, outcome \in PublishOutcomes :
       PerformAction(name, input, outcome)
  \/ \E i \in 1..MaxInvocations, error \in TransportErrors \cup {NoError} :
       PublishAck(i, error)

SpecAction == Init /\ [][NextAction]_vars

ConstructForFetch == ConstructFrom(FetchDefinitions)

FetchValues ==
  /\ phase = "ready"
  /\ fetchPending < MaxFetchPending
  /\ LET published == FetchPublishes(DeviceTopic(def), properties)
     IN /\ lastFetch' = [called |-> TRUE, published |-> published]
        /\ fetchPending' = fetchPending + Len(published)
  /\ UNCHANGED <<phase, def, types, properties, actions, events, routes, calls,
                 subscribed, title, lastUpdate, invocations, warned, escaped>>

\* The callback of the read publish: an error is only written to the log.
FetchAck(error) ==
  /\ fetchPending > 0
  /\ fetchPending' = fetchPending - 1
  /\ LET r == FetchAckCallback(error)
     IN /\ warned' = (warned \/ r.warned)
        /\ escaped' = (escaped \/ r.thrown)
  /\ UNCHANGED <<phase, def, types, properties, actions, events, routes, calls,
                 subscribed, title, lastUpdate, invocations, lastFetch>>

NextFetch ==
  \/ ConstructForFetch
  \/ FetchValues
  \/ \E error \in TransportErrors \cup {NoError} : FetchAck(error)

SpecFetch == Init /\ [][NextFetch]_vars

Next == Construct

Spec == Init /\ [][Next]_vars

(************************ claims on device mapping *************************)
CallsOf(node, op) == {c \in Range(calls) : c.node = node /\ c.op = op}

CompositeTypes == {"light", "switch", "climate"}

PressTags == {"PressedEvent", "DoublePressedEvent", "LongPressedEvent"}

\* The nodes claim C4 lists as yielding no member.
Offending(expose) ==
  \/ expose.type \in CompositeTypes /\ ~expose.features.present
  \/ /\ expose.type \notin CompositeTypes
     /\ expose.name = "action"
     /\ \/ expose.values.kind # "array"
        \/ expose.values.items = <<>>
        \/ \E v \in Range(expose.values.items) : v.t # "string"
  \/ expose.type \notin CompositeTypes /\ expose.name = ""

\* C4: the constructor's detectProperties never throws: for every device
\* definition it returns normally having visited every node of the expose
\* list, and the nodes the claim lists (no features, no name, `action`
\* values empty, not a sequence or with a non-string element) made no
\* registry call.
DetectNeverThrows ==
  phase # "new" =>
    /\ phase = "ready"
    /\ Len(routes) = Len(ExposesOf(def))
    /\ \A i \in 1..Len(ExposesOf(def)) :
         Offending(ExposesOf(def)[i]) => \A c \in Range(calls) : c.node # i

\* C9: after mapping, "PushButton" is among the category tags iff some
\* event carries a press tag, and then it occurs in the tag list exactly
\* once, however many `action` nodes the definition has.
PushButtonOnce ==
  phase = "ready" =>
    /\ ("PushButton" \in Range(types)) <=> (\E e \in DOMAIN events : events[e] \in PressTags)
    /\ Count(types, "PushButton") <= 1

\* The part of C9 that the code does satisfy.
PushButtonIffTagged ==
  phase = "ready" =>
    ("PushButton" \in Range(types)) <=> (\E e \in DOMAIN events : events[e] \in PressTags)

\* C10: a top-level node that is not light, switch or climate and is not
\* named `action` takes the action branch iff its access equals WRITE_BIT
\* exactly, and the property branch otherwise; a node on the action branch
\* adds no property, a node on the property branch adds no action, and a
\* named write-only node adds its action.
WriteOnlyRouting ==
  \A i \in 1..Len(routes) :
    LET expose == ExposesOf(def)[i]
    IN (expose.type \notin CompositeTypes /\ expose.name # "action") =>
         /\ routes[i] = "action" <=> AccessOf(expose) = WRITE_BIT
         /\ routes[i] # "action" => routes[i] = "property"
         /\ AccessOf(expose) = WRITE_BIT =>
              /\ CallsOf(i, "addProperty") = {}
              /\ expose.name # "" =>
                   CallsOf(i, "addAction") = {Call(i, "addAction", expose.name, <<>>)}
         /\ AccessOf(expose) # WRITE_BIT => CallsOf(i, "addAction") = {}

\* Two nodes of one name, one read-write and one write-only: the first
\* became a property, the second an action.
WriteOnlyRoutingWitness ==
  /\ phase = "ready"
  /\ Len(routes) = 2
  /\ ExposesOf(def)[1] = Leaf("numeric", "temperature", Num(3))
  /\ ExposesOf(def)[2] = Leaf("numeric", "temperature", Num(2))
  /\ routes = <<"property", "action">>
  /\ "temperature" \in DOMAIN properties
  /\ "temperature" \in actions

(********************* claims on the update dispatcher **********************)
KeysOf(update) == {update.entries[i].k : i \in 1..Len(update.entries)}

ActionEntries(update) == {e \in Range(update.entries) : e.k = "action"}

UnknownKey(key) ==
  key # "action" /\ key \notin IGNORED_PROPERTIES /\ key \notin DOMAIN properties

\* C3: an argument of update that is not a key-to-value mapping (null,
\* undefined, a string, a number, a boolean) is logged and handled as an
\* empty snapshot: update does not throw, calls no property's update and
\* notifies no event.
NonMappingTreatedAsEmpty ==
  (lastUpdate.called /\ lastUpdate.input.t # "object") =>
    /\ lastUpdate.logged
    /\ ~lastUpdate.threw
    /\ lastUpdate.delivered = {}
    /\ lastUpdate.notified = <<>>
    /\ properties = lastUpdate.before

\* C6: for a snapshot with the key `action`, one event is notified when the
\* value is a string naming a registered event, none otherwise, nothing is
\* thrown, and the key is never resolved against the properties: no
\* property.update call is made for it and a property named `action`
\* keeps its cached value.
ActionKeyIsEventTrigger ==
  (lastUpdate.called /\ lastUpdate.input.t = "object") =>
    \A e \in ActionEntries(lastUpdate.input) :
      /\ ~lastUpdate.threw
      /\ IF e.v.t = "string" /\ e.v.s \in DOMAIN events
         THEN lastUpdate.notified = <<e.v.s>>
         ELSE lastUpdate.notified = <<>>
      /\ \A d \in lastUpdate.delivered : d.key # "action" /\ d.property # "action"
      /\ "action" \in DOMAIN properties =>
           properties["action"] = lastUpdate.before["action"]

\* An `action` snapshot naming a registered event, on a device that also
\* has a property named `action` (from a climate feature).
ActionKeyWitness ==
  /\ lastUpdate.called
  /\ lastUpdate.input.t = "object"
  /\ "action" \in DOMAIN properties
  /\ \E e \in ActionEntries(lastUpdate.input) :
       e.v.t = "string" /\ e.v.s \in DOMAIN events /\ lastUpdate.notified = <<e.v.s>>

\* C7 as stated: with an unknown key in the snapshot, update does not
\* throw, every property whose name is no key of the snapshot keeps its
\* cached value, and every key naming a property is delivered to it with
\* the value and the whole snapshot.
UnknownKeyDeliversEveryProperty ==
  (/\ lastUpdate.called
   /\ lastUpdate.input.t = "object"
   /\ \E k \in KeysOf(lastUpdate.input) : UnknownKey(k)) =>
    /\ ~lastUpdate.threw
    /\ \A p \in DOMAIN properties :
         p \notin KeysOf(lastUpdate.input) => properties[p] = lastUpdate.before[p]
    /\ \A e \in Range(lastUpdate.input.entries) :
         e.k \in DOMAIN properties =>
           [key |-> e.k, property |-> e.k, value |-> e.v,
            update |-> lastUpdate.input] \in lastUpdate.delivered

\* C7 amended: as above, for every key other than `action` that names a
\* property; the `action` key is an event trigger even when a property has
\* that name.
UnknownKeyHarmless ==
  (/\ lastUpdate.called
   /\ lastUpdate.input.t = "object"
   /\ \E k \in KeysOf(lastUpdate.input) : UnknownKey(k)) =>
    /\ ~lastUpdate.threw
    /\ \A p \in DOMAIN properties :
         p \notin KeysOf(lastUpdate.input) => properties[p] = lastUpdate.before[p]
    /\ \A e \in Range(lastUpdate.input.entries) :
         (e.k \in DOMAIN properties /\ e.k # "action") =>
           /\ [key |-> e.k, property |-> e.k, value |-> e.v,
               update |-> lastUpdate.input] \in lastUpdate.delivered
           /\ properties[e.k] =
                PropertyUpdate(lastUpdate.before[e.k],
                               [value |-> e.v, update |-> lastUpdate.input])

\* A snapshot with an unknown key and a key of a property, on a device with
\* a second property that had a cached value and kept it.
UnknownKeyWitness ==
  /\ lastUpdate.called
  /\ lastUpdate.input.t = "object"
  /\ "bogus" \in KeysOf(lastUpdate.input)
  /\ "temperature" \in KeysOf(lastUpdate.input)
  /\ "temperature" \in DOMAIN properties
  /\ "state" \in DOMAIN properties
  /\ properties["state"].value = Num(1)
  /\ properties["temperature"].value # lastUpdate.before["temperature"].value

\* C8: update applied a second time in a row with the same snapshot leaves
\* every property as the first application left it.
UpdateIdempotent ==
  lastUpdate.repeated => properties = lastUpdate.before

\* The same snapshot twice in a row, delivering a value to a property.
UpdateIdempotentWitness ==
  /\ lastUpdate.repeated
  /\ lastUpdate.delivered # {}
  /\ \E p \in DOMAIN properties : properties[p].value = Num(1)

(************************* claims on performAction **************************)
Position(seq, x) == IF x \in Range(seq) THEN CHOOSE i \in 1..Len(seq) : seq[i] = x ELSE 0

Settled(inv) == inv.promise # "pending"

\* C1: in every invocation of performAction the start marker is set before
\* the publish is issued, and on every exit (acknowledged with success,
\* with an error, or the publish call failing) the finish marker has been
\* set exactly once, after the publish.
FinishExactlyOnceOnEveryExit ==
  \A i \in 1..Len(invocations) :
    LET inv == invocations[i]
    IN /\ Position(inv.trace, "start") = 1
       /\ Position(inv.trace, "publish") > Position(inv.trace, "start")
       /\ Count(inv.trace, "finish") <= 1
       /\ Settled(inv) =>
            /\ Count(inv.trace, "finish") = 1
            /\ Position(inv.trace, "finish") > Position(inv.trace, "publish")

\* C2 as stated: an acknowledgement with an error fails the returned
\* promise with a TransportError whose cause is the transport's error, not
\* with that error itself.
RejectsWithTransportError ==
  \A i \in 1..Len(invocations) :
    LET inv == invocations[i]
    IN (inv.ack.received /\ inv.ack.error # NoError) =>
         /\ inv.promise = "rejected"
         /\ inv.reason.class = "TransportError"
         /\ inv.reason.cause = inv.ack.error.id
         /\ inv.reason # inv.ack.error

\* C2 amended: an acknowledgement with an error rejects the returned
\* promise with the transport's error itself, one without an error
\* resolves it; either way the action is finished once and the promise is
\* settled by exactly one call of resolve or reject.
AckSettlesOnce ==
  \A i \in 1..Len(invocations) :
    LET inv == invocations[i]
    IN inv.ack.received =>
         /\ IF inv.ack.error # NoError
            THEN inv.promise = "rejected" /\ inv.reason = inv.ack.error
            ELSE inv.promise = "resolved" /\ inv.reason = NoError
         /\ Count(inv.trace, "finish") = 1
         /\ Count(inv.trace, "resolve") + Count(inv.trace, "reject") = 1

\* Two invocations in flight were acknowledged, one with an error and one
\* without.
AckSettlesOnceWitness ==
  \E i, j \in 1..Len(invocations) :
    /\ invocations[i].ack.received /\ invocations[i].ack.error # NoError
    /\ invocations[i].promise = "rejected"
    /\ invocations[j].ack.received /\ invocations[j].ack.error = NoError
    /\ invocations[j].promise = "resolved"

(************************** claims on fetchValues ***************************)
ReadableNames == {p \in DOMAIN properties : IsReadable(properties[p])}

\* C5: fetchValues issues one publish, to <deviceTopic>/get, iff some
\* property is readable; the keys of its payload are exactly the names of
\* the readable properties, each mapped to the empty string; with no
\* readable property it issues none.  No error of an acknowledgement
\* escapes its callback.
FetchPublishesReadable ==
  lastFetch.called =>
    /\ Len(lastFetch.published) <= 1
    /\ Len(lastFetch.published) = 1 <=> ReadableNames # {}
    /\ \A i \in 1..Len(lastFetch.published) :
         /\ lastFetch.published[i].topic = <<TopicPrefix, def.friendly_name, "get">>
         /\ DOMAIN lastFetch.published[i].payload = ReadableNames
         /\ \A k \in ReadableNames : lastFetch.published[i].payload[k] = ""
    /\ ~escaped

\* A device with a readable property, an unreadable one, an action and
\* events was polled, and the acknowledgement carried an error.
FetchWitness ==
  /\ lastFetch.called
  /\ Len(lastFetch.published) = 1
  /\ ReadableNames # {}
  /\ ReadableNames # DOMAIN properties
  /\ actions # {}
  /\ warned

\* A device without a readable property was polled.
FetchNothingWitness ==
  /\ lastFetch.called
  /\ lastFetch.published = <<>>
  /\ DOMAIN properties # {}

====
